---- MODULE Spec2Model ----
(***************************************************************************)
(* Model of AwesomeNegotiator (src/myagent.py): one participant of a       *)
(* bilateral alternating-offers negotiation.                               *)
(*                                                                         *)
(* Numbers.  Utilities are exact rationals in per-mille units (One = 1.0). *)
(* Relative time is t / TDen.  The aspiration curve is kept as the exact   *)
(* numerator over the denominator TDen^e, and every comparison of the code *)
(* is cross-multiplied, so no rounding is introduced by the model.         *)
(* Outcomes are 1..NOutcomes in the order enumerate_or_sample() yields     *)
(* them; None (no offer, no previous offer) is 0.                          *)
(***************************************************************************)
EXTENDS Integers, Sequences, FiniteSets, TLC

VARIABLES
    ufun,               \* own utility function, or none
    opponent_ufun,      \* counterpart utility function
    n_steps,            \* nmi.n_steps; 0 when there is no step budget
    e,                  \* concession exponent
    opponent_rv,        \* self.opponent_rv
    rational_outcomes,  \* self.rational_outcomes
    pareto_outcomes,    \* self.pareto_outcomes
    step,               \* self.step
    relative_time,      \* self.relative_time
    previous_offer,     \* self.previous_offer
    threshold,          \* last aspiration threshold computed (numerator over TDen^e)
    state,              \* the SAOState handed to the last decision call
    response,           \* the SAOResponse of the last decision call
    branch,             \* acceptance branch and bidding mode of the last call
    round,              \* index of the next round of the protocol driver
    pc                  \* "new", "ready" or "done"

vars == <<ufun, opponent_ufun, n_steps, e, opponent_rv, rational_outcomes,
          pareto_outcomes, step, relative_time, previous_offer, threshold,
          state, response, branch, round, pc>>

----------------------------------------------------------------------------
(* Bounds of the model *)

NOutcomes == 3
MaxSteps == 3
TDen == 4
MaxE == 5

(* Program constants, per-mille *)

One == 1000
RationalFloor == 800
MinOpponentRv == 10
EndgameBand == 20
DefaultE == 5

None == 0
Outcomes == 1..NOutcomes
Offers == Outcomes \cup {None}
Times == 0..TDen

----------------------------------------------------------------------------
(* Arithmetic *)

RECURSIVE Pow(_, _)
Pow(b, n) == IF n = 0 THEN 1 ELSE b * Pow(b, n - 1)

Max(a, b) == IF a >= b THEN a ELSE b

Abs(x) == IF x < 0 THEN -x ELSE x

\* the curve with t^e in place of 1 - t^e
aspiration_function_rising(t, mx, rv, ex) ==
    (mx - rv) * Pow(t, ex) + rv * Pow(TDen, ex)

\* (mx - rv) * (1 - t^e) + rv, as the numerator over TDen^e
aspiration_function(t, mx, rv, ex) ==
    (mx - rv) * (Pow(TDen, ex) - Pow(t, ex)) + rv * Pow(TDen, ex)

\* first index of the value nearest to `value` (numpy argmin keeps the first minimum)
find_nearest_value_idx(array, value) ==
    CHOOSE i \in 1..Len(array) :
        /\ \A j \in 1..Len(array) : Abs(array[i] - value) <= Abs(array[j] - value)
        /\ \A j \in 1..(i - 1) : Abs(array[j] - value) > Abs(array[i] - value)

----------------------------------------------------------------------------
(* Lists *)

\* x placed behind every element whose key is at least key[x]
RECURSIVE Insert(_, _, _)
Insert(x, s, key) ==
    IF s = <<>> THEN <<x>>
    ELSE IF key[Head(s)] >= key[x] THEN <<Head(s)>> \o Insert(x, Tail(s), key)
    ELSE <<x>> \o s

\* list.sort(key=..., reverse=True) and sorted(..., reverse=True): stable, descending
RECURSIVE SortDesc(_, _)
SortDesc(s, key) ==
    IF s = <<>> THEN <<>>
    ELSE Insert(s[Len(s)], SortDesc(SubSeq(s, 1, Len(s) - 1), key), key)

Range(s) == {s[i] : i \in 1..Len(s)}

\* Python slice s[lo:hi+1] for 0-based lo, hi given here 1-based
Slice(s, lo, hi) == IF lo > hi THEN <<>> ELSE SubSeq(s, lo, hi)

----------------------------------------------------------------------------
(* Utility functions *)

\* ufun(o); a utility function maps no outcome to its reserved value
UfunOf(u, o) == IF o = None THEN u.reserved_value ELSE u.values[o]

\* ufun.best(): the first outcome of the space with the highest own utility
Best(u) ==
    CHOOSE o \in Outcomes :
        /\ \A p \in Outcomes : u.values[p] <= u.values[o]
        /\ \A p \in 1..(o - 1) : u.values[p] < u.values[o]

----------------------------------------------------------------------------
(* Candidate Set Builder: on_preferences_changed *)

\* nmi.outcome_space.enumerate_or_sample()
EnumerateOrSample == [i \in 1..NOutcomes |-> i]

\* the filter with >= in place of >
IsRationalOrEqual(u, o) == u.values[o] >= Max(u.reserved_value, RationalFloor)

\* the filter of the list comprehension: ufun(_) > max(reserved_value, 0.80)
IsRational(u, o) == u.values[o] > Max(u.reserved_value, RationalFloor)

RationalOutcomes(u) ==
    LET keep(o) == IsRational(u, o)
    IN  SortDesc(SelectSeq(EnumerateOrSample, keep), u.values)

\* a dominates b: at least as good for both and strictly better for one
Dominates(u1, u2, a, b) ==
    /\ u1.values[a] >= u1.values[b]
    /\ u2.values[a] >= u2.values[b]
    /\ (u1.values[a] > u1.values[b] \/ u2.values[a] > u2.values[b])

\* negmas pareto_frontier((u1, u2), outcomes): the indices into `outcomes` of
\* the non-dominated ones, ordered by decreasing welfare
pareto_frontier(u1, u2, outcomes) ==
    LET onFrontier(i) == \A j \in 1..Len(outcomes) :
                             ~Dominates(u1, u2, outcomes[j], outcomes[i])
        welfare == [i \in 1..Len(outcomes) |->
                       u1.values[outcomes[i]] + u2.values[outcomes[i]]]
    IN  SortDesc(SelectSeq([i \in 1..Len(outcomes) |-> i], onFrontier), welfare)

ParetoOutcomes(u1, u2, rational) ==
    LET pareto_indices == pareto_frontier(u1, u2, rational)
    IN  SortDesc([k \in 1..Len(pareto_indices) |-> rational[pareto_indices[k]]],
                 u1.values)

OnPreferencesChanged ==
    /\ pc = "new"
    /\ pc' = "ready"
    /\ IF ufun.none
       THEN UNCHANGED <<rational_outcomes, pareto_outcomes>>
       ELSE /\ rational_outcomes' = RationalOutcomes(ufun)
            /\ pareto_outcomes' =
                   ParetoOutcomes(ufun, opponent_ufun, RationalOutcomes(ufun))
    /\ UNCHANGED <<ufun, opponent_ufun, n_steps, e, opponent_rv, step,
                   relative_time, previous_offer, threshold, state, response,
                   branch, round>>

----------------------------------------------------------------------------
(* Counterpart Reservation Estimator: update_partner_reserved_value *)

\* the update without the 0.01 clamp
update_partner_reserved_value_unclamped(rv, offer) ==
    IF UfunOf(opponent_ufun, offer) < rv
    THEN UfunOf(opponent_ufun, offer)
    ELSE rv

update_partner_reserved_value(rv, offer) ==
    IF /\ UfunOf(opponent_ufun, offer) < rv
       /\ UfunOf(opponent_ufun, offer) >= MinOpponentRv
    THEN UfunOf(opponent_ufun, offer)
    ELSE rv

----------------------------------------------------------------------------
(* Acceptance Policy: acceptance_strategy *)

\* nmi.n_steps and nmi.n_steps - self.step == 1
IsLastStep(stp) == n_steps # 0 /\ n_steps - stp = 1

AcceptanceBranch(offer, stp) ==
    IF offer = None THEN "no_offer"
    ELSE IF IsLastStep(stp) THEN "last_step"
    ELSE "aspiration"

\* the comparison with >= in place of >
ExceedsThresholdOrEqual(offer, t) ==
    ufun.values[offer] * Pow(TDen, e)
        >= aspiration_function(t, One, ufun.reserved_value, e)

\* ufun(offer) > threshold, the threshold being a numerator over TDen^e
ExceedsThreshold(offer, t) ==
    ufun.values[offer] * Pow(TDen, e)
        > aspiration_function(t, One, ufun.reserved_value, e)

\* the policy answering True when there is no offer
acceptance_strategy_accepts_none(offer, stp, t) ==
    LET br == AcceptanceBranch(offer, stp)
    IN  [accept |-> CASE br = "no_offer" -> TRUE
                      [] br = "last_step" ->
                             ufun.values[offer] > ufun.reserved_value
                      [] OTHER -> ExceedsThreshold(offer, t),
         step |-> IF br = "aspiration" THEN stp + 1 ELSE stp,
         threshold |-> IF br = "aspiration"
                       THEN aspiration_function(t, One, ufun.reserved_value, e)
                       ELSE threshold,
         branch |-> br]

\* the policy with >= in place of > in the last step
acceptance_strategy_last_or_equal(offer, stp, t) ==
    LET br == AcceptanceBranch(offer, stp)
    IN  [accept |-> CASE br = "no_offer" -> FALSE
                      [] br = "last_step" ->
                             ufun.values[offer] >= ufun.reserved_value
                      [] OTHER -> ExceedsThreshold(offer, t),
         step |-> IF br = "aspiration" THEN stp + 1 ELSE stp,
         threshold |-> IF br = "aspiration"
                       THEN aspiration_function(t, One, ufun.reserved_value, e)
                       ELSE threshold,
         branch |-> br]

\* the policy advancing the counter in the last step as well
acceptance_strategy_counts_last(offer, stp, t) ==
    LET br == AcceptanceBranch(offer, stp)
    IN  [accept |-> CASE br = "no_offer" -> FALSE
                      [] br = "last_step" ->
                             ufun.values[offer] > ufun.reserved_value
                      [] OTHER -> ExceedsThreshold(offer, t),
         step |-> IF br = "no_offer" THEN stp ELSE stp + 1,
         threshold |-> IF br = "aspiration"
                       THEN aspiration_function(t, One, ufun.reserved_value, e)
                       ELSE threshold,
         branch |-> br]

acceptance_strategy(offer, stp, t) ==
    LET br == AcceptanceBranch(offer, stp)
    IN  [accept |-> CASE br = "no_offer" -> FALSE
                      [] br = "last_step" ->
                             ufun.values[offer] > ufun.reserved_value
                      [] OTHER -> ExceedsThreshold(offer, t),
         step |-> IF br = "aspiration" THEN stp + 1 ELSE stp,
         threshold |-> IF br = "aspiration"
                       THEN aspiration_function(t, One, ufun.reserved_value, e)
                       ELSE threshold,
         branch |-> br]

----------------------------------------------------------------------------
(* Bidding Policy: bidding_strategy *)

EndgameTime == 975
ConcedeFactor == 98
FirmFactor == 101
Percent == 100

\* the candidates taken from the rational list alone
CandidatesRationalOnly == rational_outcomes

\* self.pareto_outcomes if self.pareto_outcomes else self.rational_outcomes
Candidates == IF pareto_outcomes # <<>> THEN pareto_outcomes
              ELSE rational_outcomes

\* relative_time > 0.975 or (n_steps and n_steps - self.step == 1)
IsEndgame(t, stp) == One * t > EndgameTime * TDen \/ IsLastStep(stp)

\* l.sort(key=..., reverse=True) in place of sorted(l, ...)
ListSortedInPlace(l, key) == SortDesc(l, key)

\* sorted(l, key=...) builds a new list: the list handed in stays as it is
ListAfterSorted(l, key) == l

RECURSIVE Reverse(_)
Reverse(s) == IF s = <<>> THEN <<>> ELSE Reverse(Tail(s)) \o <<Head(s)>>

\* the candidates in ascending order of counterpart utility
SortedForOpponentWorst(outcomes) ==
    Reverse(SortDesc(outcomes, opponent_ufun.values))

\* sorted(outcomes, key=opponent_ufun, reverse=True)
SortedForOpponentBest(outcomes) == SortDesc(outcomes, opponent_ufun.values)

\* the band in the order of counterpart utility, not sorted by own utility
EndgameOffersUnsorted(outcomes, rv) ==
    LET sorted_outcomes_for_opponent_best == SortedForOpponentBest(outcomes)
        opponent_ufun_values ==
            [i \in 1..Len(outcomes) |->
                opponent_ufun.values[sorted_outcomes_for_opponent_best[i]]]
        bot_idx == find_nearest_value_idx(opponent_ufun_values, rv + EndgameBand)
        top_idx == find_nearest_value_idx(opponent_ufun_values, rv)
    IN  Slice(sorted_outcomes_for_opponent_best, bot_idx, top_idx)

\* the list `offers`: the band [bot_idx : top_idx + 1] by descending own utility
EndgameOffers(outcomes, rv) ==
    LET sorted_outcomes_for_opponent_best == SortedForOpponentBest(outcomes)
        opponent_ufun_values ==
            [i \in 1..Len(outcomes) |->
                opponent_ufun.values[sorted_outcomes_for_opponent_best[i]]]
        bot_idx == find_nearest_value_idx(opponent_ufun_values, rv + EndgameBand)
        top_idx == find_nearest_value_idx(opponent_ufun_values, rv)
    IN  SortDesc(Slice(sorted_outcomes_for_opponent_best, bot_idx, top_idx),
                 ufun.values)

\* offers[0] if offers else outcomes[0]
EndgameOffer(outcomes, rv) ==
    LET offers == EndgameOffers(outcomes, rv)
    IN  IF offers # <<>> THEN offers[1] ELSE outcomes[1]

\* the two factors exchanged
TitForTatFactorSwapped(prev, offer) ==
    IF prev # None
    THEN IF UfunOf(opponent_ufun, prev) < UfunOf(opponent_ufun, offer)
         THEN FirmFactor
         ELSE ConcedeFactor
    ELSE Percent

\* the factor applied to the aspiration level, in percent
TitForTatFactor(prev, offer) ==
    IF prev # None
    THEN IF UfunOf(opponent_ufun, prev) < UfunOf(opponent_ufun, offer)
         THEN ConcedeFactor
         ELSE FirmFactor
    ELSE Percent

\* ufun(outcome) >= asp_level
MeetsAspiration(o, t, factor) ==
    ufun.values[o] * Pow(TDen, e) * Percent
        >= aspiration_function(t, One, 0, e) * factor

\* the scan keeping the last candidate that meets the level, not the first
bidding_strategy_last_hit(offer, t, stp, rv, prev) ==
    LET outcomes == Candidates
        factor == TitForTatFactor(prev, offer)
        hits == {i \in 1..Len(outcomes) : MeetsAspiration(outcomes[i], t, factor)}
        first == CHOOSE i \in hits : \A j \in hits : i >= j
    IN  IF outcomes = <<>>
        THEN [offer |-> Best(ufun), previous_offer |-> prev, mode |-> "best"]
        ELSE IF IsEndgame(t, stp)
        THEN [offer |-> EndgameOffer(outcomes, rv), previous_offer |-> prev,
              mode |-> IF EndgameOffers(outcomes, rv) # <<>> THEN "endgame"
                       ELSE "endgame_fallback"]
        ELSE IF hits # {}
        THEN [offer |-> outcomes[first], previous_offer |-> outcomes[first],
              mode |-> "mid_hit"]
        ELSE [offer |-> outcomes[1], previous_offer |-> prev,
              mode |-> "mid_first"]

bidding_strategy(offer, t, stp, rv, prev) ==
    LET outcomes == Candidates
        factor == TitForTatFactor(prev, offer)
        hits == {i \in 1..Len(outcomes) : MeetsAspiration(outcomes[i], t, factor)}
        first == CHOOSE i \in hits : \A j \in hits : i <= j
    IN  IF outcomes = <<>>
        THEN [offer |-> Best(ufun), previous_offer |-> prev, mode |-> "best"]
        ELSE IF IsEndgame(t, stp)
        THEN [offer |-> EndgameOffer(outcomes, rv), previous_offer |-> prev,
              mode |-> IF EndgameOffers(outcomes, rv) # <<>> THEN "endgame"
                       ELSE "endgame_fallback"]
        ELSE IF hits # {}
        THEN [offer |-> outcomes[first], previous_offer |-> outcomes[first],
              mode |-> "mid_hit"]
        ELSE [offer |-> outcomes[1], previous_offer |-> prev,
              mode |-> "mid_first"]

----------------------------------------------------------------------------
(* Decision call: __call__ *)

RoundLimit == IF n_steps # 0 THEN n_steps ELSE MaxSteps

Call(offer, t) ==
    /\ pc = "ready"
    /\ round < RoundLimit
    /\ offer = None => round = 0
    /\ round = 0 \/ t > relative_time
    /\ state' = [current_offer |-> offer, relative_time |-> t, step |-> round]
    /\ round' = round + 1
    /\ relative_time' = t
    /\ IF ufun.none
       THEN \* the assertion of update_partner_reserved_value fails
            /\ response' = [type |-> "ERROR", outcome |-> None]
            /\ branch' = [acceptance |-> "none", bidding |-> "none"]
            /\ pc' = "done"
            /\ UNCHANGED <<opponent_rv, step, previous_offer, threshold,
                           rational_outcomes, pareto_outcomes>>
       ELSE LET rv == update_partner_reserved_value(opponent_rv, offer)
                acc == acceptance_strategy(offer, step, t)
                bid == bidding_strategy(offer, t, acc.step, rv, previous_offer)
                sorts == ~acc.accept /\ bid.mode \in {"endgame", "endgame_fallback"}
            IN  /\ opponent_rv' = rv
                /\ step' = acc.step
                /\ threshold' = acc.threshold
                /\ IF acc.accept
                   THEN /\ response' = [type |-> "ACCEPT", outcome |-> offer]
                        /\ branch' = [acceptance |-> acc.branch,
                                      bidding |-> "none"]
                        /\ pc' = "done"
                        /\ UNCHANGED previous_offer
                   ELSE /\ response' = [type |-> "REJECT", outcome |-> bid.offer]
                        /\ branch' = [acceptance |-> acc.branch,
                                      bidding |-> bid.mode]
                        /\ pc' = "ready"
                        /\ previous_offer' = bid.previous_offer
                /\ pareto_outcomes' =
                       IF sorts /\ pareto_outcomes # <<>>
                       THEN ListAfterSorted(pareto_outcomes, opponent_ufun.values)
                       ELSE pareto_outcomes
                /\ rational_outcomes' =
                       IF sorts /\ pareto_outcomes = <<>>
                       THEN ListAfterSorted(rational_outcomes, opponent_ufun.values)
                       ELSE rational_outcomes
    /\ UNCHANGED <<ufun, opponent_ufun, n_steps, e>>

----------------------------------------------------------------------------
(* Sessions *)

OwnLevels == <<1000, 850, 600, 900, 850>>
OppLevels == <<5, 420, 400, 500, 300>>
ReservedValues == {600, 900}
OppReservedValues == {0, 410}
Exponents == {1, DefaultE}

\* the utilities of outcomes 1..NOutcomes read off `levels` from position k on
Profile(levels, k) ==
    [o \in Outcomes |-> levels[((o - 1 + k) % Len(levels)) + 1]]

NoUfun == [none |-> TRUE, values |-> [o \in Outcomes |-> 0], reserved_value |-> 0]

OwnUfuns == {[none |-> FALSE, values |-> Profile(OwnLevels, k), reserved_value |-> r] :
                k \in 0..(Len(OwnLevels) - 1), r \in ReservedValues}

OppUfuns == {[values |-> Profile(OppLevels, k), reserved_value |-> r] :
                k \in 0..(Len(OppLevels) - 1), r \in OppReservedValues}

\* the fields __init__ sets
Constructed ==
    /\ opponent_rv = One
    /\ rational_outcomes = <<>>
    /\ pareto_outcomes = <<>>
    /\ step = 0
    /\ relative_time = 0
    /\ previous_offer = None
    /\ threshold = 0
    /\ state = [current_offer |-> None, relative_time |-> 0, step |-> 0]
    /\ response = [type |-> "NONE", outcome |-> None]
    /\ branch = [acceptance |-> "none", bidding |-> "none"]
    /\ round = 0
    /\ pc = "new"

Init ==
    /\ ufun \in OwnUfuns \cup {NoUfun}
    /\ opponent_ufun \in OppUfuns
    /\ n_steps \in 0..MaxSteps
    /\ e \in Exponents
    /\ Constructed

Next ==
    \/ OnPreferencesChanged
    \/ \E offer \in Offers, t \in Times : Call(offer, t)

Spec == Init /\ [][Next]_vars

----------------------------------------------------------------------------
(* Candidate sets over every utility assignment: SpecBuild *)

BuildOwnUtils == {600, 800, 850, 1000}
BuildOppUtils == {5, 400, 420}

InitBuild ==
    /\ ufun \in {[none |-> FALSE, values |-> f, reserved_value |-> r] :
                    f \in [Outcomes -> BuildOwnUtils], r \in ReservedValues}
                \cup {NoUfun}
    /\ opponent_ufun \in {[values |-> f, reserved_value |-> 0] :
                             f \in [Outcomes -> BuildOppUtils]}
    /\ n_steps = 0
    /\ e = DefaultE
    /\ Constructed

NextBuild == OnPreferencesChanged

SpecBuild == InitBuild /\ [][NextBuild]_vars

----------------------------------------------------------------------------
(* The aspiration curve over time, reserved value and exponent: SpecAsp *)

AspReservedValues == {-500, 0, 100, 250, 500, 600, 800, 900, 990, 1000}

\* threshold = aspiration_function(self.relative_time, 1.0, reserved_value, e)
EvaluateThreshold(t) ==
    /\ pc = "curve"
    /\ t > relative_time
    /\ relative_time' = t
    /\ threshold' = aspiration_function(t, One, ufun.reserved_value, e)
    /\ UNCHANGED <<ufun, opponent_ufun, n_steps, e, opponent_rv,
                   rational_outcomes, pareto_outcomes, step, previous_offer,
                   state, response, branch, round, pc>>

InitAsp ==
    /\ ufun \in {[none |-> FALSE, values |-> Profile(OwnLevels, 0),
                  reserved_value |-> r] : r \in AspReservedValues}
    /\ opponent_ufun = [values |-> Profile(OppLevels, 0), reserved_value |-> 0]
    /\ n_steps = 0
    /\ e \in 1..MaxE
    /\ opponent_rv = One
    /\ rational_outcomes = <<>>
    /\ pareto_outcomes = <<>>
    /\ step = 0
    /\ relative_time = 0
    /\ previous_offer = None
    /\ threshold = aspiration_function(0, One, ufun.reserved_value, e)
    /\ state = [current_offer |-> None, relative_time |-> 0, step |-> 0]
    /\ response = [type |-> "NONE", outcome |-> None]
    /\ branch = [acceptance |-> "none", bidding |-> "none"]
    /\ round = 0
    /\ pc = "curve"

NextAsp == \E t \in Times : EvaluateThreshold(t)

SpecAsp == InitAsp /\ [][NextAsp]_vars

----------------------------------------------------------------------------
(* The endgame band over every utility assignment: SpecEnd *)

EndOwnUtils == {600, 850, 900, 1000}
EndOppUtils == {400, 420, 440}
EndOppReservedValues == {0, 430}

\* a budget of one step: the only call is a last step, made at the deadline
InitEnd ==
    /\ ufun \in {[none |-> FALSE, values |-> f, reserved_value |-> 600] :
                    f \in [Outcomes -> EndOwnUtils]}
    /\ opponent_ufun \in {[values |-> f, reserved_value |-> r] :
                             f \in [Outcomes -> EndOppUtils],
                             r \in EndOppReservedValues}
    /\ n_steps = 1
    /\ e = DefaultE
    /\ Constructed

NextEnd ==
    \/ OnPreferencesChanged
    \/ \E offer \in Offers : Call(offer, TDen)

SpecEnd == InitEnd /\ [][NextEnd]_vars

----------------------------------------------------------------------------
(* Properties *)

\* a decision call is the only step that advances the driver's round
IsCallStep == round' = round + 1

\* a decision call has been made
Called == response.type # "NONE"

C2_LastRoundAcceptsRational ==
    (Called /\ ~ufun.none /\ n_steps # 0 /\ state.step = n_steps - 1
        /\ state.current_offer # None)
    => (response.type = "ACCEPT"
            <=> ufun.values[state.current_offer] > ufun.reserved_value)

\* C3: opponent_rv starts at 1.0, never increases and is never below 0.01.
C3_OpponentRvMonotone ==
    /\ opponent_rv = One
    /\ [](opponent_rv >= MinOpponentRv)
    /\ [][opponent_rv' <= opponent_rv]_vars

C3_Witness ==
    /\ Called
    /\ opponent_rv < One
    /\ UfunOf(opponent_ufun, state.current_offer) < MinOpponentRv

\* C4: a decision call made without an own utility function answers END
\* without raising and leaves opponent_rv, the round counter and the previous
\* own offer as they were.
C4_MissingUfunEnds ==
    (Called /\ ufun.none)
    => /\ response.type = "END"
       /\ opponent_rv = One /\ step = 0 /\ previous_offer = None

\* C5: a call without an incoming offer, the own utility function present, is
\* never answered ACCEPT: it is answered REJECT with a counter-offer.
C5_OpeningRejects ==
    (Called /\ ~ufun.none /\ state.current_offer = None)
    => /\ response.type = "REJECT"
       /\ response.outcome \in Outcomes
       /\ branch.bidding # "none"

C5_Witness ==
    /\ Called /\ ~ufun.none /\ state.current_offer = None
    /\ response.type = "REJECT"
    /\ pareto_outcomes # <<>>

\* C6: every counter-offer of a REJECT is an element of the pareto list when
\* that list is not empty, else of the rational list when that is not empty,
\* else an outcome of highest own utility.
C6_CounterOfferFromCandidates ==
    response.type = "REJECT" =>
        IF pareto_outcomes # <<>> THEN response.outcome \in Range(pareto_outcomes)
        ELSE IF rational_outcomes # <<>>
        THEN response.outcome \in Range(rational_outcomes)
        ELSE /\ response.outcome \in Outcomes
             /\ \A o \in Outcomes :
                    ufun.values[o] <= ufun.values[response.outcome]

C6_Witness ==
    /\ response.type = "REJECT"
    /\ branch.bidding = "endgame"
    /\ Len(pareto_outcomes) < Len(rational_outcomes)
    /\ response.outcome # pareto_outcomes[1]

\* C7: after initialization with an own utility function every rational
\* outcome has own utility strictly above max(reserved value, 0.80), pareto is
\* a subset of rational none of whose elements is dominated by a rational
\* outcome, and both lists are in non-increasing order of own utility.
C7_CandidateSet ==
    (pc = "ready" /\ ~ufun.none) =>
        LET u == ufun.values
            v == opponent_ufun.values
            floor == IF ufun.reserved_value > RationalFloor
                     THEN ufun.reserved_value ELSE RationalFloor
        IN  /\ \A o \in Range(rational_outcomes) : u[o] > floor
            /\ Range(pareto_outcomes) \subseteq Range(rational_outcomes)
            /\ \A p \in Range(pareto_outcomes), r \in Range(rational_outcomes) :
                   ~(u[r] >= u[p] /\ v[r] >= v[p] /\ (u[r] > u[p] \/ v[r] > v[p]))
            /\ \A i \in 1..(Len(rational_outcomes) - 1) :
                   u[rational_outcomes[i]] >= u[rational_outcomes[i + 1]]
            /\ \A i \in 1..(Len(pareto_outcomes) - 1) :
                   u[pareto_outcomes[i]] >= u[pareto_outcomes[i + 1]]

C7_Witness ==
    /\ pc = "ready" /\ ~ufun.none
    /\ Len(rational_outcomes) < NOutcomes
    /\ Len(pareto_outcomes) < Len(rational_outcomes)
    /\ rational_outcomes[1] > rational_outcomes[2]

\* C8: no decision call changes the rational list or the pareto list.
C8_CandidateSetFrozen ==
    [][IsCallStep => /\ rational_outcomes' = rational_outcomes
                     /\ pareto_outcomes' = pareto_outcomes]_vars

C8_Witness ==
    /\ response.type = "REJECT"
    /\ branch.bidding = "endgame"
    /\ Len(pareto_outcomes) >= 2

\* C9: the threshold A(t) with mx = 1.0 does not increase as t grows over
\* [0,1], is 1.0 at t = 0 and the reserved value at t = 1.
C9_ThresholdCurve ==
    pc = "curve" =>
        LET D == Pow(TDen, e)
        IN  /\ \A t \in Times :
                   t >= relative_time =>
                       aspiration_function(t, One, ufun.reserved_value, e)
                           <= threshold
            /\ relative_time = 0 => threshold = One * D
            /\ relative_time = TDen => threshold = ufun.reserved_value * D

C9_Witness ==
    /\ pc = "curve"
    /\ relative_time = TDen
    /\ ufun.reserved_value < One
    /\ e > 1

\* C11: the acceptance policy advances the round counter by one on every
\* evaluation, whatever the branch, so that after k decision calls with an own
\* utility function the round counter is k.
C11_CounterCountsCalls ==
    (pc # "new" /\ ~ufun.none) => step = round

\* C13: after every decision call answered REJECT the previous own offer of
\* the session is the counter-offer that response carries.
C13_PreviousOfferIsLastOffer ==
    response.type = "REJECT" => previous_offer = response.outcome

\* the candidate list has an outcome whose own utility is at least the
\* aspiration level 1 - t^e scaled by `factor` percent
SomeCandidateMeets(t, factor) ==
    \E i \in 1..Len(Candidates) :
        ufun.values[Candidates[i]] * Pow(TDen, e) * Percent
            >= One * (Pow(TDen, e) - Pow(t, e)) * factor

\* a decision call answered in mid-negotiation mode
IsMidStep == IsCallStep /\ branch'.bidding \in {"mid_hit", "mid_first"}

\* C12: in mid-negotiation mode the aspiration level is multiplied by 0.98
\* when a previous own offer exists and the counterpart's utility of the
\* incoming offer exceeds that of the previous own offer, and by 1.01 in every
\* other case, the case of no previous own offer included: a candidate is
\* found exactly when one reaches the level so scaled.
C12_TitForTatAlways ==
    [][IsMidStep =>
        LET offer == state'.current_offer
            concede == /\ previous_offer # None
                       /\ UfunOf(opponent_ufun, previous_offer)
                              < UfunOf(opponent_ufun, offer)
            factor == IF concede THEN ConcedeFactor ELSE FirmFactor
        IN  branch'.bidding = "mid_hit"
                <=> SomeCandidateMeets(state'.relative_time, factor)]_vars

\* C12, amended: the level is multiplied by 0.98 when a previous own offer
\* exists and the counterpart's utility of the incoming offer exceeds that of
\* the previous own offer, by 1.01 when a previous own offer exists and it
\* does not, and is left as it is when no previous own offer exists.
C12_TitForTat ==
    [][IsMidStep =>
        LET offer == state'.current_offer
            concede == UfunOf(opponent_ufun, previous_offer)
                           < UfunOf(opponent_ufun, offer)
            factor == IF previous_offer = None THEN Percent
                      ELSE IF concede THEN ConcedeFactor ELSE FirmFactor
        IN  branch'.bidding = "mid_hit"
                <=> SomeCandidateMeets(state'.relative_time, factor)]_vars

\* a previous own offer existed and the scaled level decided the call
C12_Witness ==
    /\ branch.bidding = "mid_first"
    /\ previous_offer # None
    /\ SomeCandidateMeets(state.relative_time, ConcedeFactor)

\* C15: a decision call leaves opponent_rv at the lower of its value before
\* the call and the counterpart utility of the incoming offer when that
\* utility is at least 0.01, and as it was when the utility is below 0.01 or
\* no offer came in; with the start at 1.0 this makes opponent_rv the minimum
\* of 1.0 and the counterpart utilities of at least 0.01 observed so far.
C15_OpponentRvIsObservedMin ==
    [][(IsCallStep /\ ~ufun.none) =>
        LET offer == state'.current_offer
            seen == offer # None /\ opponent_ufun.values[offer] >= MinOpponentRv
        IN  opponent_rv' = IF seen /\ opponent_ufun.values[offer] < opponent_rv
                           THEN opponent_ufun.values[offer]
                           ELSE opponent_rv]_vars

\* the candidates by descending counterpart utility, ties in list order
ByOpponentUtility == SortDesc(Candidates, opponent_ufun.values)

\* the first position of ByOpponentUtility whose counterpart utility is
\* nearest to `target`
NearestPosition(target) ==
    LET dist(i) == Abs(opponent_ufun.values[ByOpponentUtility[i]] - target)
    IN  CHOOSE i \in 1..Len(ByOpponentUtility) :
            /\ \A j \in 1..Len(ByOpponentUtility) : dist(i) <= dist(j)
            /\ \A j \in 1..(i - 1) : dist(j) > dist(i)

\* a decision call answered in endgame mode
InEndgame ==
    response.type = "REJECT" /\ branch.bidding \in {"endgame", "endgame_fallback"}

\* C14: in endgame mode with a non-empty candidate list the counter-offer is
\* an element of S[b..p] of highest own utility in S[b..p], S being the
\* candidates by descending counterpart utility, b the position nearest to
\* opponent_rv + 0.02 and p the position nearest to opponent_rv.
C14_EndgameBandChoice ==
    InEndgame =>
        LET b == NearestPosition(opponent_rv + EndgameBand)
            p == NearestPosition(opponent_rv)
            band == {ByOpponentUtility[i] : i \in b..p}
        IN  /\ response.outcome \in band
            /\ \A o \in band : ufun.values[o] <= ufun.values[response.outcome]

C14_Witness ==
    /\ InEndgame
    /\ NearestPosition(opponent_rv + EndgameBand) < NearestPosition(opponent_rv)
    /\ response.outcome # ByOpponentUtility[NearestPosition(opponent_rv + EndgameBand)]
    /\ state.current_offer # None

\* C19: in endgame mode with a non-empty candidate list the position nearest
\* to opponent_rv + 0.02 is never behind the position nearest to opponent_rv:
\* the band is never empty and the fallback to the first candidate is never
\* taken.
C19_BandNeverEmpty ==
    (Called /\ branch.bidding \in {"endgame", "endgame_fallback"}) =>
        /\ NearestPosition(opponent_rv + EndgameBand) <= NearestPosition(opponent_rv)
        /\ EndgameOffers(Candidates, opponent_rv) # <<>>
        /\ branch.bidding = "endgame"

C19_Witness ==
    /\ InEndgame
    /\ Len(Candidates) >= 2
    /\ NearestPosition(opponent_rv + EndgameBand) = NearestPosition(opponent_rv)
    /\ opponent_rv < One

\* C16: in mid-negotiation mode with a non-empty candidate list the
\* counter-offer has the highest own utility of the candidate list, whatever
\* the relative time, the exponent and the tit-for-tat factor.
C16_MidOfferIsTopCandidate ==
    (response.type = "REJECT" /\ branch.bidding \in {"mid_hit", "mid_first"}) =>
        /\ response.outcome \in Range(Candidates)
        /\ \A o \in Range(Candidates) :
               ufun.values[o] <= ufun.values[response.outcome]

\* a candidate below the top one meets the aspiration level as well
C16_Witness ==
    /\ response.type = "REJECT"
    /\ branch.bidding = "mid_hit"
    /\ Len(Candidates) >= 2
    /\ ufun.values[Candidates[2]] < ufun.values[Candidates[1]]
    /\ ufun.values[Candidates[2]] * Pow(TDen, e) * Percent
           >= One * (Pow(TDen, e) - Pow(state.relative_time, e)) * FirmFactor

\* C17: under a step budget and with relative time at most 0.975, a call
\* whose bidding policy is in endgame mode is a call whose acceptance policy
\* applied the last-round rule.
C17_PoliciesAgreeOnLastRound ==
    (Called /\ n_steps # 0
        /\ One * state.relative_time <= EndgameTime * TDen
        /\ branch.bidding \in {"endgame", "endgame_fallback"})
    => branch.acceptance = "last_step"

\* C18: no offer whose own utility is at most the own reserved value is
\* answered ACCEPT, in either acceptance branch.
C18_NeverAcceptIrrational ==
    response.type = "ACCEPT" =>
        /\ response.outcome # None
        /\ ufun.values[response.outcome] > ufun.reserved_value

\* accepted at the deadline, where the threshold is the reserved value
C18_Witness ==
    /\ response.type = "ACCEPT"
    /\ branch.acceptance = "aspiration"
    /\ state.relative_time = TDen
    /\ ufun.values[response.outcome] < One

\* C20: under a step budget of at least one the round counter never exceeds
\* n_steps - 1, and once it is n_steps - 1 no decision call changes it and
\* every call with an incoming offer takes the last-round rule.
C20_CounterStopsBeforeBudget ==
    /\ [](n_steps # 0 => step <= n_steps - 1)
    /\ [][(n_steps # 0 /\ step = n_steps - 1) =>
            /\ step' = step
            /\ (IsCallStep /\ ~ufun.none /\ state'.current_offer # None)
                   => branch'.acceptance = "last_step"]_vars

\* a call made with the counter already at n_steps - 1 after earlier calls
C20_Witness ==
    /\ n_steps >= 2
    /\ step = n_steps - 1
    /\ branch.acceptance = "last_step"
    /\ response.type = "REJECT"

====
